---- MODULE Spec2Model ----
(***************************************************************************)
(* Particle fluid simulation: the particle system hook (useParticleSystem), *)
(* the motion-based pointer estimator hook (useHandTracking) and the       *)
(* component that wires them together (FluidSimulation).                   *)
(*                                                                         *)
(* JavaScript numbers are modelled in fixed point: a length, a velocity, a *)
(* radius, an alpha and a life value v is held as the integer v * SCALE,   *)
(* and every product or quotient is truncated toward zero.                 *)
(***************************************************************************)
EXTENDS Integers, Sequences, FiniteSets, TLC

VARIABLES
    \* ---- useParticleSystem -------------------------------------------
    particlesRef,       \* particlesRef.current: sequence of particles
    handPositionRef,    \* handPositionRef.current: the shared PointerState slot
    animationFrameRef,  \* animationFrameRef.current: id of the last animate request
    canvas,             \* canvasRef.current: [width, height] in pixels
    props,              \* hook arguments of the latest render
    \* ---- browser ------------------------------------------------------
    rafQueue,           \* pending requestAnimationFrame callbacks
    rafNext,            \* next requestAnimationFrame id
    \* ---- observation of the simulation loop ----------------------------
    rendered,           \* what the last renderParticles call drew
    tick,               \* what the last tick read: canvas size, pointer, parameters
    ticks,              \* number of ticks executed so far
    loopStopped,        \* stop() was called and start() has not been called since
    reinitProps,        \* props at the last reinitialize() of a running loop
    startsLeft,         \* start() calls the caller still makes
    eventsLeft,         \* other calls and changes the caller still makes
    lastWrite,          \* the last write of the PointerState slot: who, in which mode
    \* ---- useHandTracking ----------------------------------------------
    videoRef,           \* videoRef.current: a video element, 0 for null
    streamRef,          \* streamRef.current: a camera stream, 0 for null
    analysisCanvasRef,  \* canvasRef.current of the hook: set or null
    animationRef,       \* animationRef.current: id of the last processFrame request
    prevFrameRef,       \* prevFrameRef.current: the previous frame, or none
    isRunningRef,       \* isRunningRef.current
    isLoading,          \* React state
    error,              \* React state: the reported message, "" for null
    isActive,           \* React state
    calls,              \* the position of each initialize() invocation
    streams,            \* the camera stream each invocation acquired
    videos,             \* the video element each invocation created
    \* ---- observation of the estimator ----------------------------------
    errorReports,       \* number of setError(message) calls
    cameraRequests,     \* number of getUserMedia calls
    stoppedDuring,      \* invocations during which stop() was called
    thrown,             \* err.message caught by each invocation, "" when none
    frameTicks,         \* number of processFrame runs so far
    emitted,            \* what the last processFrame run passed to onHandUpdate
    outcome,            \* the path the last processFrame run took
    \* ---- FluidSimulation ----------------------------------------------
    useHandControl,     \* React state: camera control is enabled
    isMouseDown         \* React state

simVars == <<particlesRef, handPositionRef, animationFrameRef, canvas, props,
             rendered, tick, ticks, loopStopped, reinitProps, startsLeft,
             eventsLeft, lastWrite>>
loopVars == <<particlesRef, animationFrameRef, canvas, props, rendered, tick, ticks,
              loopStopped, reinitProps, startsLeft>>
rafVars == <<rafQueue, rafNext>>
estVars == <<videoRef, streamRef, analysisCanvasRef, animationRef, prevFrameRef,
             isRunningRef, isLoading, error, isActive, calls, streams, videos,
             errorReports, cameraRequests, stoppedDuring, thrown, frameTicks, emitted,
             outcome>>
uiVars == <<useHandControl, isMouseDown>>
vars == <<simVars, rafVars, estVars, uiVars>>

----------------------------------------------------------------------------
(* Bounds of the model *)

MaxParticles == 2      \* particleCount ranges over 1..MaxParticles
MaxTicks == 3          \* ticks of the simulation loop per behaviour
MaxStarts == 2         \* start() calls per behaviour of the loop specification
MaxEvents == 2         \* other calls of the caller per behaviour
MaxInits == 2          \* initialize() invocations of the estimator per behaviour
MaxFrames == 3         \* processFrame runs per behaviour

(* Program constants *)

SCALE == 100                 \* fixed-point unit: 1.0 is SCALE
DefaultRadius == 150         \* interactionRadius default, pixels
DefaultStrength == 50        \* interactionStrength default 0.5
SeparationDistance == 20     \* pairwise repulsion range, pixels
SeparationGain == 5          \* 0.05
DampingPercent == 98         \* velocity *= 0.98
Gravity == 2                 \* velocity.y += 0.02
ConnectionDistance == 50     \* connection lines below 50px
PaletteSize == 5             \* PARTICLE_COLORS.length
AnalysisWidth == 160         \* analysis canvas width
AnalysisHeight == 120        \* analysis canvas height
SampleStep == 4              \* every 4th pixel on both axes
MotionThreshold == 25        \* per-pixel difference threshold
MotionMin == 30              \* motionCount above which a pointer is emitted
OpenMin == 150               \* motionCount above which isOpen is true
AssumedVideoWidth == 320     \* video width the component scales from
AssumedVideoHeight == 240    \* video height the component scales from

----------------------------------------------------------------------------
(* Arithmetic *)

TruncDiv(a, b) == IF a >= 0 THEN a \div b ELSE -((-a) \div b)

Abs(a) == IF a >= 0 THEN a ELSE -a

RECURSIVE SqrtSearch(_, _, _)
SqrtSearch(n, lo, hi) ==
    IF lo >= hi THEN lo
    ELSE LET mid == (lo + hi + 1) \div 2
         IN  IF mid * mid <= n THEN SqrtSearch(n, mid, hi)
             ELSE SqrtSearch(n, lo, mid - 1)

\* Math.sqrt, rounded down to the fixed-point grid
Sqrt(n) == SqrtSearch(n, 0, 46340)

Distance(dx, dy) == Sqrt(dx * dx + dy * dy)

----------------------------------------------------------------------------
(* Values *)

\* HandPosition | null
Null == [isNull |-> TRUE, x |-> 0, y |-> 0, isOpen |-> FALSE]

Hand(x, y, isOpen) == [isNull |-> FALSE, x |-> x, y |-> y, isOpen |-> isOpen]

\* Math.random() in hundredths: a value of [0, 1)
Rand == {0, 50, 99}

\* The nine Math.random() draws of one particle, in source order:
\* x, y, vx, vy, radius, color, alpha, life, maxLife
TopLeft == <<0, 0, 0, 0, 0, 0, 0, 0, 99>>
BottomRight == <<99, 99, 99, 99, 99, 99, 99, 99, 0>>
Centre == <<50, 50, 50, 50, 50, 50, 50, 50, 50>>
BelowCentre == <<50, 99, 50, 99, 0, 50, 99, 99, 0>>

\* Streams of Math.random(): each gives the draws of the first, second, ...
\* particle of one initParticles call, and repeats after its last entry
RandomStreams ==
    { <<TopLeft, BottomRight, Centre>>,
      <<Centre, BelowCentre, TopLeft>>,
      <<BottomRight, TopLeft, BelowCentre>> }

\* canvas sizes the container may take, pixels
CanvasSizes == { <<60, 40>>, <<30, 20>>, <<0, 0>> }

\* pointer positions an input adapter may publish, fixed point
PointerInputs == { Hand(3000, 2000, TRUE), Hand(0, 0, FALSE) }

\* pointers on a 500 x 400 canvas around the particle that initParticles puts
\* at (250, 200): at distance 50 on the x axis, coincident, at distance 150 and
\* at distance 50 off both axes; open and closed
ForcePointers ==
    { Hand(xy[1] * SCALE, xy[2] * SCALE, isOpen) :
         xy \in { <<200, 200>>, <<250, 200>>, <<100, 200>>, <<220, 160>> },
         isOpen \in BOOLEAN }

\* hook arguments of a render
Props(particleCount, interactionRadius, interactionStrength) ==
    [particleCount |-> particleCount, interactionRadius |-> interactionRadius,
     interactionStrength |-> interactionStrength]

DefaultProps(particleCount) == Props(particleCount, DefaultRadius, DefaultStrength)

\* the settings the caller may render the hook with: the default, and one
\* with each argument changed
PropsChoices ==
    { DefaultProps(1), DefaultProps(2), Props(1, 50, DefaultStrength),
      Props(1, DefaultRadius, 100) }

----------------------------------------------------------------------------
(* initParticles *)

NewParticle(width, height, r) ==
    [x       |-> TruncDiv(r[1] * width * SCALE, 100),
     y       |-> TruncDiv(r[2] * height * SCALE, 100),
     vx      |-> TruncDiv((r[3] - 50) * 2 * SCALE, 100),
     vy      |-> TruncDiv((r[4] - 50) * 2 * SCALE, 100),
     radius  |-> TruncDiv(r[5] * 3 * SCALE, 100) + SCALE,
     color   |-> TruncDiv(r[6] * PaletteSize, 100) + 1,
     alpha   |-> TruncDiv(r[7] * SCALE, 200) + TruncDiv(SCALE, 2),
     life    |-> r[8] * SCALE,
     maxLife |-> 100 * SCALE + r[9] * SCALE]

\* an initParticles that pushes one particle fewer
InitParticlesShort(width, height, particleCount, random) ==
    [i \in 1..(particleCount - 1) |->
        NewParticle(width, height, random[((i - 1) % Len(random)) + 1])]

\* initParticles(width, height) of a render with particleCount, drawing from
\* the stream `random`
InitParticles(width, height, particleCount, random) ==
    [i \in 1..particleCount |->
        NewParticle(width, height, random[((i - 1) % Len(random)) + 1])]

----------------------------------------------------------------------------
(* updateParticles *)

\* a hand interaction that always repels
HandForceRepelOnly(particle, hand, interactionRadius, interactionStrength) ==
    IF hand.isNull THEN <<0, 0>>
    ELSE LET dx == particle.x - hand.x
             dy == particle.y - hand.y
             distance == Distance(dx, dy)
             radius == interactionRadius * SCALE
         IN  IF distance < radius /\ distance > 0
             THEN LET force == TruncDiv((radius - distance) * SCALE, radius)
                      cosAngle == TruncDiv(dx * SCALE, distance)
                      sinAngle == TruncDiv(dy * SCALE, distance)
                  IN  << TruncDiv(cosAngle * force * interactionStrength,
                                  SCALE * SCALE),
                         TruncDiv(sinAngle * force * interactionStrength,
                                  SCALE * SCALE) >>
             ELSE <<0, 0>>

\* a hand interaction whose force does not fall off with the distance
HandForceNoFalloff(particle, hand, interactionRadius, interactionStrength) ==
    IF hand.isNull THEN <<0, 0>>
    ELSE LET dx == particle.x - hand.x
             dy == particle.y - hand.y
             distance == Distance(dx, dy)
             radius == interactionRadius * SCALE
         IN  IF distance < radius /\ distance > 0
             THEN LET force == SCALE
                      cosAngle == TruncDiv(dx * SCALE, distance)
                      sinAngle == TruncDiv(dy * SCALE, distance)
                      direction == IF hand.isOpen THEN 1 ELSE -1
                  IN  << TruncDiv(cosAngle * force * interactionStrength,
                                  SCALE * SCALE) * direction,
                         TruncDiv(sinAngle * force * interactionStrength,
                                  SCALE * SCALE) * direction >>
             ELSE <<0, 0>>

\* a hand interaction that reaches beyond interactionRadius
HandForceUnbounded(particle, hand, interactionRadius, interactionStrength) ==
    IF hand.isNull THEN <<0, 0>>
    ELSE LET dx == particle.x - hand.x
             dy == particle.y - hand.y
             distance == Distance(dx, dy)
             radius == interactionRadius * SCALE
         IN  IF distance > 0
             THEN LET force == TruncDiv((radius - distance) * SCALE, radius)
                      cosAngle == TruncDiv(dx * SCALE, distance)
                      sinAngle == TruncDiv(dy * SCALE, distance)
                      direction == IF hand.isOpen THEN 1 ELSE -1
                  IN  << TruncDiv(cosAngle * force * interactionStrength,
                                  SCALE * SCALE) * direction,
                         TruncDiv(sinAngle * force * interactionStrength,
                                  SCALE * SCALE) * direction >>
             ELSE <<0, 0>>

\* velocity change of the hand interaction: <<dvx, dvy>>.
\* cos(atan2(dy, dx)) is dx / distance and sin(atan2(dy, dx)) is dy / distance.
HandForce(particle, hand, interactionRadius, interactionStrength) ==
    IF hand.isNull THEN <<0, 0>>
    ELSE LET dx == particle.x - hand.x
             dy == particle.y - hand.y
             distance == Distance(dx, dy)
             radius == interactionRadius * SCALE
         IN  IF distance < radius /\ distance > 0
             THEN LET force == TruncDiv((radius - distance) * SCALE, radius)
                      cosAngle == TruncDiv(dx * SCALE, distance)
                      sinAngle == TruncDiv(dy * SCALE, distance)
                      direction == IF hand.isOpen THEN 1 ELSE -1
                  IN  << TruncDiv(cosAngle * force * interactionStrength,
                                  SCALE * SCALE) * direction,
                         TruncDiv(sinAngle * force * interactionStrength,
                                  SCALE * SCALE) * direction >>
             ELSE <<0, 0>>

\* velocity change of the separation force on particle i from the particles
\* j..Len(particles): <<dvx, dvy>>
RECURSIVE SeparationForce(_, _, _)
SeparationForce(particles, i, j) ==
    IF j > Len(particles) THEN <<0, 0>>
    ELSE LET rest == SeparationForce(particles, i, j + 1)
             dx == particles[j].x - particles[i].x
             dy == particles[j].y - particles[i].y
             distance == Distance(dx, dy)
             range == SeparationDistance * SCALE
         IN  IF j # i /\ distance < range /\ distance > 0
             THEN LET force == TruncDiv((range - distance) * SeparationGain, range)
                  IN  << rest[1] - TruncDiv(dx * force, distance),
                         rest[2] - TruncDiv(dy * force, distance) >>
             ELSE rest

\* v *= -0.5
\* halving without the reversal
HalfKeep(v) == TruncDiv(v, 2)

HalfReverse(v) == TruncDiv(-v, 2)

\* the boundary collision without its upper test
BounceLowOnly(pos, vel, limit) ==
    IF pos < 0 THEN <<0, HalfReverse(vel)>> ELSE <<pos, vel>>

\* boundary collision on one axis: <<position, velocity>>
Bounce(pos, vel, limit) ==
    LET low == IF pos < 0 THEN <<0, HalfReverse(vel)>> ELSE <<pos, vel>>
    IN  IF low[1] > limit THEN <<limit, HalfReverse(low[2])>> ELSE low

\* a life reset one tick late
WrapsLate(particle) == particle.life > particle.maxLife

\* life += 1 exceeds maxLife
Wraps(particle) == particle.life + SCALE > particle.maxLife

\* a forEach body that adds the gravity before the damping
StepParticleGravityFirst(particles, i, hand, width, height, radius, strength, alphaDraw) ==
    LET p == particles[i]
        hf == HandForce(p, hand, radius, strength)
        sf == SeparationForce(particles, i, 1)
        vx == TruncDiv((p.vx + hf[1] + sf[1]) * DampingPercent, 100)
        vy == TruncDiv((p.vy + hf[2] + sf[2] + Gravity) * DampingPercent, 100)
        bx == Bounce(p.x + vx, vx, width * SCALE)
        by == Bounce(p.y + vy, vy, height * SCALE)
    IN  [p EXCEPT !.x = bx[1], !.vx = bx[2], !.y = by[1], !.vy = by[2],
                  !.life = IF Wraps(p) THEN 0 ELSE p.life + SCALE,
                  !.alpha = IF Wraps(p)
                            THEN TruncDiv(alphaDraw * SCALE, 200) + TruncDiv(SCALE, 2)
                            ELSE p.alpha]

\* the body of particles.forEach for particle i, with the interactionRadius
\* and interactionStrength of the closure; alphaDraw is the Math.random() of the
\* life reset
StepParticle(particles, i, hand, width, height, radius, strength, alphaDraw) ==
    LET p == particles[i]
        hf == HandForce(p, hand, radius, strength)
        sf == SeparationForce(particles, i, 1)
        vx == TruncDiv((p.vx + hf[1] + sf[1]) * DampingPercent, 100)
        vy == TruncDiv((p.vy + hf[2] + sf[2]) * DampingPercent, 100) + Gravity
        bx == Bounce(p.x + vx, vx, width * SCALE)
        by == Bounce(p.y + vy, vy, height * SCALE)
    IN  [p EXCEPT !.x = bx[1], !.vx = bx[2], !.y = by[1], !.vy = by[2],
                  !.life = IF Wraps(p) THEN 0 ELSE p.life + SCALE,
                  !.alpha = IF Wraps(p)
                            THEN TruncDiv(alphaDraw * SCALE, 200) + TruncDiv(SCALE, 2)
                            ELSE p.alpha]

\* particles.forEach from particle i on: the array is updated in place, so a
\* particle sees the new positions of the particles before it
RECURSIVE UpdateFrom(_, _, _, _, _, _, _, _)
UpdateFrom(particles, i, hand, width, height, radius, strength, alphaDraws) ==
    IF i > Len(particles) THEN particles
    ELSE UpdateFrom(
            [particles EXCEPT ![i] =
                StepParticle(particles, i, hand, width, height, radius, strength,
                             IF i \in DOMAIN alphaDraws THEN alphaDraws[i] ELSE 0)],
            i + 1, hand, width, height, radius, strength, alphaDraws)

UpdateParticles(particles, hand, width, height, radius, strength, alphaDraws) ==
    UpdateFrom(particles, 1, hand, width, height, radius, strength, alphaDraws)

\* the Math.random() draws a tick may make: one per particle whose life wraps
AlphaChoices(particles) ==
    [{i \in 1..Len(particles) : Wraps(particles[i])} -> Rand]

----------------------------------------------------------------------------
(* renderParticles: the connection lines and the hand indicator *)

RenderParticles(particles, hand, interactionRadius) ==
    [segments |->
        { [i |-> pr[1], j |-> pr[2],
           from |-> <<particles[pr[1]].x, particles[pr[2]].y>>,
           to |-> <<particles[pr[2]].x, particles[pr[2]].y>>] :
          pr \in { q \in (1..Len(particles)) \X (1..Len(particles)) :
                     /\ q[1] < q[2]
                     /\ Distance(particles[q[1]].x - particles[q[2]].x,
                                 particles[q[1]].y - particles[q[2]].y)
                          < ConnectionDistance * SCALE } },
     halo |-> IF hand.isNull THEN {}
              ELSE {[x |-> hand.x, y |-> hand.y, radius |-> interactionRadius,
                     isOpen |-> hand.isOpen]}]

----------------------------------------------------------------------------
(* The browser's animation frame queue *)

\* a pending callback: the function, the values its closure captured, and
\* (observation) the values the tick that requested it computed with
Callback(id, fn, radius, strength, usedRadius, usedStrength) ==
    [id |-> id, fn |-> fn, radius |-> radius, strength |-> strength,
     usedRadius |-> usedRadius, usedStrength |-> usedStrength]

AnimateCallbacks == {cb \in rafQueue : cb.fn = "animate"}

\* callbacks run in the order they were requested
NextCallback(cb) == cb \in rafQueue /\ \A other \in rafQueue : cb.id <= other.id

\* cancelAnimationFrame(id)
Cancel(queue, id) == {cb \in queue : cb.id # id}

----------------------------------------------------------------------------
(* useParticleSystem: animate, start, stop, reinitialize, setHandPosition *)

NoTick == [width |-> -1, height |-> -1, hand |-> Null, radius |-> 0, strength |-> 0,
           props |-> DefaultProps(0)]

\* a tick that reads the arguments of the latest render
TickParamsLive(closure) ==
    [radius |-> props.interactionRadius, strength |-> props.interactionStrength]

\* the parameter values a tick run by a closure computes with
TickParams(closure) == [radius |-> closure.radius, strength |-> closure.strength]

\* an animate() whose renderParticles draws the pointer of the tick before
AnimateBodyStalePointer(particles, closure, queue, alphaDraws) ==
    LET width == canvas[1]
        height == canvas[2]
        hand == handPositionRef
        used == TickParams(closure)
        updated == UpdateParticles(particles, hand, width, height, used.radius,
                                   used.strength, alphaDraws)
    IN  /\ particlesRef' = updated
        /\ rendered' = RenderParticles(updated, tick.hand, used.radius)
        /\ tick' = [width |-> width, height |-> height, hand |-> hand,
                    radius |-> used.radius, strength |-> used.strength,
                    props |-> props]
        /\ ticks' = ticks + 1
        /\ animationFrameRef' = rafNext
        /\ rafQueue' = queue \cup
                {Callback(rafNext, "animate", closure.radius, closure.strength,
                          used.radius, used.strength)}
        /\ rafNext' = rafNext + 1

\* animate(): one tick on the particle array `particles`, run by a closure that
\* captured `closure`, with `queue` the callbacks still pending
AnimateBody(particles, closure, queue, alphaDraws) ==
    LET width == canvas[1]
        height == canvas[2]
        hand == handPositionRef
        used == TickParams(closure)
        updated == UpdateParticles(particles, hand, width, height, used.radius,
                                   used.strength, alphaDraws)
    IN  /\ particlesRef' = updated
        /\ rendered' = RenderParticles(updated, hand, used.radius)
        /\ tick' = [width |-> width, height |-> height, hand |-> hand,
                    radius |-> used.radius, strength |-> used.strength,
                    props |-> props]
        /\ ticks' = ticks + 1
        /\ animationFrameRef' = rafNext
        /\ rafQueue' = queue \cup
                {Callback(rafNext, "animate", closure.radius, closure.strength,
                          used.radius, used.strength)}
        /\ rafNext' = rafNext + 1

\* a display refresh runs a pending animate callback
Animate(cb) ==
    /\ NextCallback(cb)
    /\ cb.fn = "animate"
    /\ ticks < MaxTicks
    /\ \E alphaDraws \in AlphaChoices(particlesRef) :
          AnimateBody(particlesRef, cb, rafQueue \ {cb}, alphaDraws)
    /\ UNCHANGED <<handPositionRef, canvas, props, loopStopped, reinitProps,
                   startsLeft, eventsLeft>>
    /\ UNCHANGED <<lastWrite, estVars, uiVars>>

\* start(): initParticles, then animate() synchronously
Start ==
    /\ ticks < MaxTicks
    /\ startsLeft > 0
    /\ startsLeft' = startsLeft - 1
    /\ \E random \in RandomStreams :
          LET fresh == InitParticles(canvas[1], canvas[2], props.particleCount, random)
          IN  \E alphaDraws \in AlphaChoices(fresh) :
                 AnimateBody(fresh,
                             [radius |-> props.interactionRadius,
                              strength |-> props.interactionStrength],
                             rafQueue, alphaDraws)
    /\ loopStopped' = FALSE
    /\ reinitProps' = {}
    /\ UNCHANGED <<handPositionRef, canvas, props, eventsLeft>>
    /\ UNCHANGED <<lastWrite, estVars, uiVars>>

\* the caller makes one more call
Event == eventsLeft > 0 /\ eventsLeft' = eventsLeft - 1

\* stop()
Stop ==
    /\ Event
    /\ rafQueue' = IF animationFrameRef # 0
                   THEN Cancel(rafQueue, animationFrameRef) ELSE rafQueue
    /\ loopStopped' = TRUE
    /\ UNCHANGED <<particlesRef, handPositionRef, animationFrameRef, canvas, props,
                   rendered, tick, ticks, reinitProps, rafNext, startsLeft>>
    /\ UNCHANGED <<lastWrite, estVars, uiVars>>

\* reinitialize()
Reinitialize ==
    /\ Event
    /\ \E random \in RandomStreams :
          particlesRef' = InitParticles(canvas[1], canvas[2], props.particleCount, random)
    /\ reinitProps' = IF AnimateCallbacks # {} THEN {props} ELSE {}
    /\ UNCHANGED <<handPositionRef, animationFrameRef, canvas, props, rendered,
                   tick, ticks, loopStopped, rafVars, startsLeft>>
    /\ UNCHANGED <<lastWrite, estVars, uiVars>>

\* setHandPosition(position), called by the writer `by`
SlotWrite(position, by) ==
    /\ handPositionRef' = position
    /\ lastWrite' = [by |-> by, camera |-> useHandControl, switched |-> FALSE]

\* the caller publishes a pointer
SetHandPosition(position) ==
    /\ Event
    /\ SlotWrite(position, "caller")
    /\ UNCHANGED <<particlesRef, animationFrameRef, canvas, props, rendered, tick,
                   ticks, loopStopped, reinitProps, startsLeft, rafVars>>
    /\ UNCHANGED <<estVars, uiVars>>

\* the caller renders the hook with other arguments
SetProps(newProps) ==
    /\ Event
    /\ newProps # props
    /\ props' = newProps
    /\ reinitProps' = {}
    /\ UNCHANGED <<particlesRef, handPositionRef, animationFrameRef, canvas,
                   rendered, tick, ticks, loopStopped, rafVars, startsLeft>>
    /\ UNCHANGED <<lastWrite, estVars, uiVars>>

\* the caller resizes the canvas element
ResizeCanvas(size) ==
    /\ Event
    /\ size # canvas
    /\ canvas' = size
    /\ UNCHANGED <<particlesRef, handPositionRef, animationFrameRef, props,
                   rendered, tick, ticks, loopStopped, reinitProps, rafVars, startsLeft>>
    /\ UNCHANGED <<lastWrite, estVars, uiVars>>

----------------------------------------------------------------------------
(* useHandTracking: camera, video element and frames *)

Calls == 1..MaxInits

InFlight(pc) == pc \in {"awaitCamera", "awaitReady", "awaitPlay"}

\* resolutions the camera may deliver for the 320x240 ideal
VideoSizes == { <<320, 240>>, <<640, 480>> }

Black == <<0, 0, 0>>
White == <<255, 255, 255>>

\* a frame drawn on the analysis canvas: a block <<x0, y0, x1, y1>> of colour fg
\* on black
Frame(block, fg) == [block |-> block, fg |-> fg]

CameraFrames ==
    { Frame(<<0, 0, 0, 0>>, White),
      Frame(<<40, 40, 80, 80>>, White),
      Frame(<<40, 40, 120, 80>>, White),
      Frame(<<40, 40, 56, 56>>, White) }

\* frames around the thresholds: blocks of 30, 31, 9, 10 and 160 sampled
\* pixels, a block and the same block shifted by 8 pixels, and blocks whose
\* channel differences from black sum to 60
ScanFrames ==
    { Frame(<<0, 0, 0, 0>>, White),
      Frame(<<0, 0, 20, 24>>, White),
      Frame(<<0, 0, 124, 4>>, White),
      Frame(<<0, 0, 36, 4>>, White),
      Frame(<<0, 0, 40, 4>>, White),
      Frame(<<0, 0, 64, 40>>, White),
      Frame(<<40, 40, 80, 80>>, White),
      Frame(<<48, 40, 88, 80>>, White),
      Frame(<<0, 0, 64, 40>>, <<30, 30, 0>>) }

AllFrames == CameraFrames \cup ScanFrames

\* ImageData.data at (x, y): <<r, g, b>>
PixelAt(frame, x, y) ==
    IF /\ frame.block[1] <= x /\ x < frame.block[3]
       /\ frame.block[2] <= y /\ y < frame.block[4]
    THEN frame.fg ELSE Black

\* the motion test of one sampled pixel
IsMotion(currentFrame, prevFrame, x, y) ==
    LET c == PixelAt(currentFrame, x, y)
        q == PixelAt(prevFrame, x, y)
        rDiff == Abs(c[1] - q[1])
        gDiff == Abs(c[2] - q[2])
        bDiff == Abs(c[3] - q[3])
        diff == TruncDiv((rDiff + gDiff + bDiff) * SCALE, 3)
    IN  diff > MotionThreshold * SCALE

NoMotion == [motionX |-> 0, motionY |-> 0, motionCount |-> 0]

\* a scan that sums x without mirroring it
SampleUnmirrored(currentFrame, prevFrame, x, y) ==
    IF IsMotion(currentFrame, prevFrame, x, y)
    THEN [motionX |-> x, motionY |-> y, motionCount |-> 1]
    ELSE NoMotion

\* the sums one sampled pixel adds to motionX, motionY and motionCount
Sample(currentFrame, prevFrame, x, y) ==
    IF IsMotion(currentFrame, prevFrame, x, y)
    THEN [motionX |-> AnalysisWidth - x, motionY |-> y, motionCount |-> 1]
    ELSE NoMotion

AddMotion(a, b) ==
    [motionX |-> a.motionX + b.motionX, motionY |-> a.motionY + b.motionY,
     motionCount |-> a.motionCount + b.motionCount]

\* the inner loop: the sums over the sampled columns lo..hi (x = column *
\* SampleStep) of row y; the sums are split in halves, which adds the same terms
RECURSIVE ScanRow(_, _, _, _, _)
ScanRow(currentFrame, prevFrame, y, lo, hi) ==
    IF lo > hi THEN NoMotion
    ELSE IF lo = hi THEN Sample(currentFrame, prevFrame, lo * SampleStep, y)
    ELSE LET mid == (lo + hi) \div 2
         IN  AddMotion(ScanRow(currentFrame, prevFrame, y, lo, mid),
                       ScanRow(currentFrame, prevFrame, y, mid + 1, hi))

\* the outer loop: the sums over the sampled rows lo..hi (y = row * SampleStep)
RECURSIVE ScanRows(_, _, _, _)
ScanRows(currentFrame, prevFrame, lo, hi) ==
    IF lo > hi THEN NoMotion
    ELSE IF lo = hi
         THEN ScanRow(currentFrame, prevFrame, lo * SampleStep, 0,
                      (AnalysisWidth - 1) \div SampleStep)
    ELSE LET mid == (lo + hi) \div 2
         IN  AddMotion(ScanRows(currentFrame, prevFrame, lo, mid),
                       ScanRows(currentFrame, prevFrame, mid + 1, hi))

\* motionX, motionY and motionCount after both loops
ScanFrame(currentFrame, prevFrame) ==
    ScanRows(currentFrame, prevFrame, 0, (AnalysisHeight - 1) \div SampleStep)

\* the sums of every pair of camera frames
MotionSums ==
    [currentFrame \in AllFrames, prevFrame \in AllFrames |->
        ScanFrame(currentFrame, prevFrame)]

\* motionX / motionCount and motionY / motionCount, in fixed point
Centroid(m) ==
    [x |-> TruncDiv(m.motionX * SCALE, m.motionCount),
     y |-> TruncDiv(m.motionY * SCALE, m.motionCount)]

\* an estimate whose thresholds are reached rather than exceeded
EstimateInclusive(currentFrame, prevFrame, videoSize) ==
    LET m == MotionSums[currentFrame, prevFrame]
    IN  IF m.motionCount >= MotionMin
        THEN Hand(TruncDiv(Centroid(m).x * videoSize[1], AnalysisWidth),
                  TruncDiv(Centroid(m).y * videoSize[2], AnalysisHeight),
                  m.motionCount >= OpenMin)
        ELSE Null

\* what processFrame passes to onHandUpdate for two frames of a video of
\* videoSize: a HandData in fixed point, or null
Estimate(currentFrame, prevFrame, videoSize) ==
    LET m == MotionSums[currentFrame, prevFrame]
    IN  IF m.motionCount > MotionMin
        THEN Hand(TruncDiv(Centroid(m).x * videoSize[1], AnalysisWidth),
                  TruncDiv(Centroid(m).y * videoSize[2], AnalysisHeight),
                  m.motionCount > OpenMin)
        ELSE Null

\* handleHandUpdate of the component: what it passes to setHandPosition
HandleHandUpdate(hand) ==
    IF ~hand.isNull
    THEN Hand(TruncDiv(hand.x * canvas[1], AssumedVideoWidth),
              TruncDiv(hand.y * canvas[2], AssumedVideoHeight),
              hand.isOpen)
    ELSE Null

\* err.message when the user or the platform refuses the camera (Chromium,
\* Firefox)
PermissionMessages ==
    { "Permission denied",
      "The request is not allowed by the user agent or the platform in the current context." }

\* err.message when there is no camera (Chromium, Firefox)
NotFoundMessages ==
    { "Requested device not found", "The object can not be found here." }

\* err.message of the rejections of getUserMedia
CameraErrors ==
    PermissionMessages \cup NotFoundMessages \cup {"Could not start video source"}

\* message.includes(word)
Includes(message, word) ==
    <<message, word>> \in { <<"Permission denied", "Permission">>,
                            <<"Requested device not found",
                              "Requested device not found">> }

\* a catch block that reports one message for every failure
ErrorTextUnclassified(message) == "Camera error"

\* the message the catch block reports
ErrorText(message) ==
    IF Includes(message, "Permission") \/ Includes(message, "NotAllowed")
    THEN "Camera permission denied"
    ELSE IF \/ Includes(message, "NotFound")
            \/ Includes(message, "Requested device not found")
         THEN "No camera found"
         ELSE "Camera error: " \o message

\* React state after the catch block of initialize
CatchState(message) ==
    [error |-> ErrorText(message), isLoading |-> FALSE, isActive |-> FALSE]

NoVideo == [srcObject |-> 0, playing |-> FALSE, size |-> <<0, 0>>]

\* the video element v shows frames of a live stream
VideoHasData(v) ==
    /\ videos[v].srcObject # 0
    /\ streams[videos[v].srcObject] = "live"

ProcessCallbacks == {cb \in rafQueue : cb.fn = "processFrame"}

\* animationRef.current = requestAnimationFrame(processFrame)
RequestProcessFrame(queue) ==
    /\ animationRef' = rafNext
    /\ rafQueue' = queue \cup {Callback(rafNext, "processFrame", 0, 0, 0, 0)}
    /\ rafNext' = rafNext + 1

\* initialize(): up to the first await
InitializeBody(k) ==
    /\ calls[k] = "unused" /\ \A j \in Calls : j < k => calls[j] # "unused"
    /\ ~isRunningRef
    /\ isLoading' = TRUE
    /\ error' = ""
    /\ videos' = [videos EXCEPT ![k] = NoVideo]
    /\ videoRef' = k
    /\ cameraRequests' = cameraRequests + 1
    /\ calls' = [calls EXCEPT ![k] = "awaitCamera"]
    /\ UNCHANGED <<streamRef, analysisCanvasRef, animationRef, prevFrameRef,
                   isRunningRef, isActive, streams, errorReports, stoppedDuring, thrown,
                   frameTicks, emitted, outcome, rafVars>>

\* the caller invokes initialize()
Initialize(k) ==
    /\ InitializeBody(k)
    /\ UNCHANGED <<simVars, uiVars>>

\* an initialize that starts the analysis loop as soon as getUserMedia resolves
CameraGrantedStartsLoop(k, size) ==
    /\ calls[k] = "awaitCamera"
    /\ streams' = [streams EXCEPT ![k] = "live"]
    /\ streamRef' = k
    /\ videos' = [videos EXCEPT ![k].srcObject = k, ![k].size = size]
    /\ calls' = [calls EXCEPT ![k] = "awaitReady"]
    /\ isRunningRef' = TRUE
    /\ RequestProcessFrame(rafQueue)
    /\ UNCHANGED <<videoRef, analysisCanvasRef, prevFrameRef,
                   isLoading, error, isActive, errorReports,
                   cameraRequests, stoppedDuring, thrown, frameTicks, emitted, outcome>>
    /\ UNCHANGED <<simVars, uiVars>>

\* getUserMedia resolves: up to the second await
CameraGranted(k, size) ==
    /\ calls[k] = "awaitCamera"
    /\ streams' = [streams EXCEPT ![k] = "live"]
    /\ streamRef' = k
    /\ videos' = [videos EXCEPT ![k].srcObject = k, ![k].size = size]
    /\ calls' = [calls EXCEPT ![k] = "awaitReady"]
    /\ UNCHANGED <<videoRef, analysisCanvasRef, animationRef, prevFrameRef,
                   isRunningRef, isLoading, error, isActive, errorReports,
                   cameraRequests, stoppedDuring, thrown, frameTicks, emitted, outcome>>
    /\ UNCHANGED <<simVars, rafVars, uiVars>>

\* the catch block of initialize
Fail(k, message) ==
    /\ error' = CatchState(message).error
    /\ isLoading' = CatchState(message).isLoading
    /\ isActive' = CatchState(message).isActive
    /\ errorReports' = errorReports + 1
    /\ thrown' = [thrown EXCEPT ![k] = message]
    /\ calls' = [calls EXCEPT ![k] = "failed"]
    /\ UNCHANGED <<videoRef, streamRef, analysisCanvasRef, animationRef,
                   prevFrameRef, isRunningRef, streams, videos, cameraRequests,
                   stoppedDuring, frameTicks, emitted, outcome>>
    /\ UNCHANGED <<simVars, rafVars, uiVars>>

\* getUserMedia rejects
CameraRejected(k, message) ==
    /\ calls[k] = "awaitCamera"
    /\ Fail(k, message)

\* video.onloadeddata: clearTimeout, video.play()
VideoLoaded(k) ==
    /\ calls[k] = "awaitReady"
    /\ VideoHasData(k)
    /\ calls' = [calls EXCEPT ![k] = "awaitPlay"]
    /\ UNCHANGED <<videoRef, streamRef, analysisCanvasRef, animationRef,
                   prevFrameRef, isRunningRef, isLoading, error, isActive, streams,
                   videos, errorReports, cameraRequests, stoppedDuring, thrown, frameTicks,
                   emitted, outcome>>
    /\ UNCHANGED <<simVars, rafVars, uiVars>>

\* video.play() resolves: the rest of the try block
PlayResolved(k) ==
    /\ calls[k] = "awaitPlay"
    /\ videos[k].srcObject # 0
    /\ videos' = [videos EXCEPT ![k].playing = TRUE]
    /\ analysisCanvasRef' = TRUE
    /\ isRunningRef' = TRUE
    /\ RequestProcessFrame(rafQueue)
    /\ isActive' = TRUE
    /\ isLoading' = FALSE
    /\ calls' = [calls EXCEPT ![k] = "done"]
    /\ UNCHANGED <<videoRef, streamRef, prevFrameRef, error, streams, errorReports,
                   cameraRequests, stoppedDuring, thrown, frameTicks, emitted, outcome>>
    /\ UNCHANGED <<simVars, uiVars>>

\* video.play() rejects
PlayRejected(k) ==
    /\ calls[k] = "awaitPlay"
    /\ Fail(k, "The play() request was interrupted")

\* video.onerror
VideoErrored(k) ==
    /\ calls[k] = "awaitReady"
    /\ Fail(k, "Video failed")

\* a ready wait without the timer
TimedOutNever(k) ==
    /\ calls[k] = "awaitReady"
    /\ FALSE
    /\ Fail(k, "Camera timeout")

\* the 8000 ms timer fires before loadeddata
TimedOut(k) ==
    /\ calls[k] = "awaitReady"
    /\ Fail(k, "Camera timeout")

\* stop() of the estimator
StopBody ==
    /\ isRunningRef' = FALSE
    /\ animationRef' = 0
    /\ rafQueue' = IF animationRef # 0 THEN Cancel(rafQueue, animationRef)
                   ELSE rafQueue
    /\ streams' = IF streamRef # 0 THEN [streams EXCEPT ![streamRef] = "stopped"]
                  ELSE streams
    /\ streamRef' = 0
    /\ videos' = IF videoRef # 0
                 THEN [videos EXCEPT ![videoRef].srcObject = 0,
                                     ![videoRef].playing = FALSE]
                 ELSE videos
    /\ videoRef' = 0
    /\ analysisCanvasRef' = FALSE
    /\ prevFrameRef' = {}
    /\ isActive' = FALSE
    /\ stoppedDuring' = stoppedDuring \cup {k \in Calls : InFlight(calls[k])}
    /\ UNCHANGED thrown
    /\ UNCHANGED <<isLoading, error, calls, errorReports, cameraRequests,
                   frameTicks, emitted, outcome, rafNext>>

\* the caller invokes stop()
StopTracking ==
    /\ Event
    /\ StopBody
    /\ UNCHANGED <<loopVars, handPositionRef, lastWrite, uiVars>>

\* drawImage or getImageData throws and nothing after the try block runs
FrameThrowsUncaught(queue) ==
    /\ outcome' = "threw"
    /\ emitted' = {}
    /\ rafQueue' = queue
    /\ UNCHANGED <<prevFrameRef, handPositionRef, lastWrite, animationRef, rafNext>>

\* drawImage or getImageData throws: the catch block ignores the error and
\* the next callback is requested
FrameThrows(queue) ==
    /\ outcome' = "threw"
    /\ emitted' = {}
    /\ RequestProcessFrame(queue)
    /\ UNCHANGED <<prevFrameRef, handPositionRef, lastWrite>>

\* a display refresh runs a pending processFrame callback; the camera shows
\* one of `frames`
ProcessFrame(cb, frames) ==
    /\ NextCallback(cb)
    /\ cb.fn = "processFrame"
    /\ frameTicks < MaxFrames
    /\ frameTicks' = frameTicks + 1
    /\ IF ~isRunningRef
       THEN /\ outcome' = "stopped"
            /\ rafQueue' = rafQueue \ {cb}
            /\ emitted' = {}
            /\ UNCHANGED <<animationRef, rafNext, prevFrameRef, handPositionRef,
                           lastWrite>>
       ELSE IF videoRef = 0 \/ ~analysisCanvasRef \/ ~videos[videoRef].playing
                  \/ ~VideoHasData(videoRef)
       THEN /\ outcome' = "notReady"
            /\ RequestProcessFrame(rafQueue \ {cb})
            /\ emitted' = {}
            /\ UNCHANGED <<prevFrameRef, handPositionRef, lastWrite>>
       ELSE \/ FrameThrows(rafQueue \ {cb})
            \/ \E currentFrame \in frames :
                  /\ RequestProcessFrame(rafQueue \ {cb})
                  /\ prevFrameRef' = {currentFrame}
                  /\ IF prevFrameRef = {}
                     THEN /\ outcome' = "first"
                          /\ emitted' = {}
                          /\ UNCHANGED <<handPositionRef, lastWrite>>
                     ELSE \E prevFrame \in prevFrameRef :
                             LET hand == Estimate(currentFrame, prevFrame,
                                                  videos[videoRef].size)
                             IN  /\ outcome' = "compared"
                                 /\ emitted' = {hand}
                                 /\ SlotWrite(HandleHandUpdate(hand), "estimator")
    /\ UNCHANGED <<videoRef, streamRef, analysisCanvasRef, isRunningRef, isLoading,
                   error, isActive, calls, streams, videos, errorReports,
                   cameraRequests, stoppedDuring, thrown>>
    /\ UNCHANGED <<particlesRef, animationFrameRef, canvas, props, rendered, tick,
                   ticks, loopStopped, reinitProps, startsLeft, eventsLeft, uiVars>>

----------------------------------------------------------------------------
(* FluidSimulation: the component's event handlers *)

\* the frames the camera shows while the component is mounted
MountedFrames ==
    { Frame(<<0, 0, 0, 0>>, White), Frame(<<40, 40, 120, 80>>, White) }

\* the effect has run: the canvas is sized and the loop is started
Mounted == startsLeft = 0

\* a handler that leaves the hooks alone
HandlerOnly ==
    /\ Event
    /\ Mounted
    /\ UNCHANGED <<loopVars, rafVars, estVars>>

\* handleMouseMove with the pointer at `position` of the canvas
HandleMouseMove(position) ==
    /\ HandlerOnly
    /\ IF ~useHandControl
       THEN SlotWrite(Hand(position.x, position.y, ~isMouseDown), "mouse")
       ELSE UNCHANGED <<handPositionRef, lastWrite>>
    /\ UNCHANGED uiVars

\* onMouseDown and onMouseUp
SetIsMouseDown(down) ==
    /\ HandlerOnly
    /\ isMouseDown' = down
    /\ UNCHANGED <<handPositionRef, lastWrite, useHandControl>>

\* handleMouseLeave
HandleMouseLeave ==
    /\ HandlerOnly
    /\ IF ~useHandControl
       THEN SlotWrite(Null, "mouse")
       ELSE UNCHANGED <<handPositionRef, lastWrite>>
    /\ UNCHANGED uiVars

\* handleTouchMove with the first touch at `position` of the canvas
HandleTouchMove(position) ==
    /\ HandlerOnly
    /\ IF ~useHandControl
       THEN SlotWrite(Hand(position.x, position.y, FALSE), "touch")
       ELSE UNCHANGED <<handPositionRef, lastWrite>>
    /\ UNCHANGED uiVars

\* onTouchEnd
HandleTouchEnd ==
    /\ HandlerOnly
    /\ SlotWrite(Null, "touch")
    /\ UNCHANGED uiVars

\* toggleHandControl, from the button that is disabled while handLoading
ToggleHandControl ==
    /\ Event
    /\ Mounted
    /\ ~isLoading
    /\ IF useHandControl
       THEN /\ StopBody
            /\ useHandControl' = FALSE
       ELSE /\ useHandControl' = TRUE
            /\ IF isRunningRef THEN UNCHANGED <<estVars, rafVars>>
               ELSE \E k \in Calls : InitializeBody(k)
    /\ lastWrite' = [lastWrite EXCEPT !.switched = TRUE]
    /\ UNCHANGED <<loopVars, handPositionRef, isMouseDown>>

----------------------------------------------------------------------------
(* Specifications *)

\* after construction of the hook
InitParticleSystem ==
    /\ particlesRef = <<>>
    /\ animationFrameRef = 0
    /\ rafQueue = {}
    /\ rafNext = 1
    /\ rendered = [segments |-> {}, halo |-> {}]
    /\ tick = NoTick
    /\ ticks = 0
    /\ loopStopped = FALSE
    /\ reinitProps = {}

\* after construction of the estimator hook
InitEstimator ==
    /\ videoRef = 0
    /\ streamRef = 0
    /\ analysisCanvasRef = FALSE
    /\ animationRef = 0
    /\ prevFrameRef = {}
    /\ isRunningRef = FALSE
    /\ isLoading = FALSE
    /\ error = ""
    /\ isActive = FALSE
    /\ calls = [k \in Calls |-> "unused"]
    /\ streams = [k \in Calls |-> "none"]
    /\ videos = [k \in Calls |-> NoVideo]
    /\ errorReports = 0
    /\ cameraRequests = 0
    /\ stoppedDuring = {}
    /\ thrown = [k \in Calls |-> ""]
    /\ frameTicks = 0
    /\ emitted = {}
    /\ outcome = "none"

\* the component's state on its first render
InitComponent ==
    /\ useHandControl = FALSE
    /\ isMouseDown = FALSE
    /\ lastWrite = [by |-> "none", camera |-> FALSE, switched |-> FALSE]

\* Integration: the loop is started once and ticks under any pointer, resize
\* and reinitialization
Init ==
    /\ InitParticleSystem
    /\ InitEstimator
    /\ InitComponent
    /\ canvas \in CanvasSizes
    /\ handPositionRef = Null
    /\ \E particleCount \in 1..MaxParticles : props = DefaultProps(particleCount)
    /\ startsLeft = 1
    /\ eventsLeft = MaxEvents

Next ==
    \/ Start
    \/ Reinitialize
    \/ \E cb \in rafQueue : Animate(cb)
    \/ \E position \in PointerInputs \cup {Null} : SetHandPosition(position)
    \/ \E size \in CanvasSizes : ResizeCanvas(size)

Spec == Init /\ [][Next]_vars

\* Lifecycle: any sequence of start, stop, reinitialize and parameter changes,
\* on a canvas of one size with a pointer resting on it
InitLoop ==
    /\ InitParticleSystem
    /\ InitEstimator
    /\ InitComponent
    /\ canvas = <<60, 40>>
    /\ handPositionRef \in PointerInputs
    /\ props = DefaultProps(1)
    /\ startsLeft = MaxStarts
    /\ eventsLeft = MaxEvents

NextLoop ==
    \/ Start
    \/ Stop
    \/ Reinitialize
    \/ \E cb \in rafQueue : Animate(cb)
    \/ \E newProps \in PropsChoices : SetProps(newProps)

SpecLoop == InitLoop /\ [][NextLoop]_vars

\* Pointer force: one particle on a 500 x 400 canvas, with the pointers of
\* ForcePointers and two settings of radius and strength
InitForce ==
    /\ InitParticleSystem
    /\ InitEstimator
    /\ InitComponent
    /\ canvas = <<500, 400>>
    /\ handPositionRef \in ForcePointers
    /\ props \in {DefaultProps(1), Props(1, 50, 100)}
    /\ startsLeft = 1
    /\ eventsLeft = MaxEvents

NextForce ==
    \/ Start
    \/ Reinitialize
    \/ \E cb \in rafQueue : Animate(cb)
    \/ \E position \in ForcePointers : SetHandPosition(position)

SpecForce == InitForce /\ [][NextForce]_vars

\* Estimator: any interleaving of initialize, stop, the camera's answers and
\* the analysis ticks, publishing to a canvas of one size
InitEst ==
    /\ InitParticleSystem
    /\ InitEstimator
    /\ InitComponent
    /\ canvas = <<60, 40>>
    /\ handPositionRef = Null
    /\ props = DefaultProps(1)
    /\ startsLeft = 0
    /\ eventsLeft = MaxEvents

NextEst ==
    \/ \E k \in Calls : Initialize(k)
    \/ \E k \in Calls, size \in VideoSizes : CameraGranted(k, size)
    \/ \E k \in Calls, message \in CameraErrors : CameraRejected(k, message)
    \/ \E k \in Calls : VideoLoaded(k)
    \/ \E k \in Calls : PlayResolved(k)
    \/ \E k \in Calls : PlayRejected(k)
    \/ \E k \in Calls : VideoErrored(k)
    \/ \E k \in Calls : TimedOut(k)
    \/ StopTracking
    \/ \E cb \in rafQueue : ProcessFrame(cb, CameraFrames)

SpecEst == InitEst /\ [][NextEst]_vars

\* The estimator with the browser's progress: the getUserMedia promise and the
\* play() promise settle, loadeddata fires on a video that has a live stream
\* unless the wait ended first, and the 8000 ms timer fires unless it was
\* cleared or the wait ended first
FairEst ==
    \A k \in Calls :
       /\ WF_vars((\E size \in VideoSizes : CameraGranted(k, size))
                    \/ (\E message \in CameraErrors : CameraRejected(k, message)))
       /\ WF_vars(VideoLoaded(k))
       /\ WF_vars(TimedOut(k))
       /\ WF_vars(PlayResolved(k) \/ PlayRejected(k))

SpecEstFair == InitEst /\ [][NextEst]_vars /\ FairEst

\* Component: mounted on a canvas of one size, with the pointer events, the
\* toggle, the camera's answers and both frame loops interleaved
InitUI ==
    /\ InitParticleSystem
    /\ InitEstimator
    /\ InitComponent
    /\ canvas = <<60, 40>>
    /\ handPositionRef = Null
    /\ props = DefaultProps(1)
    /\ startsLeft = 1
    /\ eventsLeft = MaxEvents

NextUI ==
    \/ Start
    \/ \E cb \in rafQueue : Animate(cb)
    \/ \E position \in PointerInputs : HandleMouseMove(position)
    \/ \E down \in BOOLEAN : SetIsMouseDown(down)
    \/ HandleMouseLeave
    \/ \E position \in PointerInputs : HandleTouchMove(position)
    \/ HandleTouchEnd
    \/ ToggleHandControl
    \/ \E k \in Calls, size \in VideoSizes : CameraGranted(k, size)
    \/ \E k \in Calls, message \in CameraErrors : CameraRejected(k, message)
    \/ \E k \in Calls : VideoLoaded(k)
    \/ \E k \in Calls : PlayResolved(k)
    \/ \E k \in Calls : PlayRejected(k)
    \/ \E k \in Calls : VideoErrored(k)
    \/ \E k \in Calls : TimedOut(k)
    \/ \E cb \in rafQueue : ProcessFrame(cb, MountedFrames)

SpecUI == InitUI /\ [][NextUI]_vars

\* Analysis: an Active estimator that has read one frame, for every previous
\* frame, delivered resolution and canvas size; the analysis ticks run
InitScan ==
    /\ particlesRef = <<>>
    /\ animationFrameRef = 0
    /\ rafQueue = {Callback(1, "processFrame", 0, 0, 0, 0)}
    /\ rafNext = 2
    /\ rendered = [segments |-> {}, halo |-> {}]
    /\ tick = NoTick
    /\ ticks = 0
    /\ loopStopped = FALSE
    /\ reinitProps = {}
    /\ InitComponent
    /\ canvas \in {<<60, 40>>, <<30, 20>>}
    /\ handPositionRef = Null
    /\ props = DefaultProps(1)
    /\ startsLeft = 0
    /\ eventsLeft = 0
    /\ videoRef = 1
    /\ streamRef = 1
    /\ analysisCanvasRef = TRUE
    /\ animationRef = 1
    /\ prevFrameRef \in {{frame} : frame \in ScanFrames}
    /\ isRunningRef = TRUE
    /\ isLoading = FALSE
    /\ error = ""
    /\ isActive = TRUE
    /\ calls = [k \in Calls |-> IF k = 1 THEN "done" ELSE "unused"]
    /\ streams = [k \in Calls |-> IF k = 1 THEN "live" ELSE "none"]
    /\ \E size \in VideoSizes :
          videos = [k \in Calls |->
                      IF k = 1 THEN [srcObject |-> 1, playing |-> TRUE, size |-> size]
                      ELSE NoVideo]
    /\ errorReports = 0
    /\ cameraRequests = 1
    /\ stoppedDuring = {}
    /\ thrown = [k \in Calls |-> ""]
    /\ frameTicks = 1
    /\ emitted = {}
    /\ outcome = "first"

NextScan == \E cb \in rafQueue : ProcessFrame(cb, ScanFrames)

SpecScan == InitScan /\ [][NextScan]_vars

----------------------------------------------------------------------------
(* Properties of the particle system *)

InCanvas(particle, size) ==
    /\ 0 <= particle.x /\ particle.x <= size[1] * SCALE
    /\ 0 <= particle.y /\ particle.y <= size[2] * SCALE

\* a step that runs a tick: animate() from a frame callback or from start()
TickStep == ticks' = ticks + 1

\* a step that is a call of start()
StartStep == startsLeft' # startsLeft

\* C1: after every tick every particle lies in [0, width] x [0, height] of the
\* canvas size the tick read, whatever the pointer, the velocities, and the
\* earlier ticks, resizes and reinitializations were
C1_PositionsClamped ==
    [][TickStep =>
          /\ tick'.width = canvas[1] /\ tick'.height = canvas[2]
          /\ \A i \in 1..Len(particlesRef') : InCanvas(particlesRef'[i], canvas)]_vars

\* C1 witness: a tick has put a particle that a resize left outside the canvas
\* onto the right edge of the shrunk canvas
C1_Witness ==
    /\ ticks >= 2
    /\ tick.width = 30
    /\ \E i \in 1..Len(particlesRef) :
          particlesRef[i].x = 30 * SCALE /\ particlesRef[i].vx > 0

\* C3: start() is idempotent: at most one animate callback chain is pending
C3_SingleChain == Cardinality(AnimateCallbacks) <= 1

\* C4: after stop() no tick runs until start() is called again
C4_NoTickAfterStop == [][(loopStopped /\ ~StartStep) => ~TickStep]_vars

\* C7: after a parameter change followed by reinitialize() on a running loop,
\* every tick computes the pointer force and draws the halo with the new values
C7_ReinitAppliesParams ==
    [][(TickStep /\ reinitProps # {}) =>
          \A p \in reinitProps :
             /\ tick'.radius = p.interactionRadius
             /\ tick'.strength = p.interactionStrength
             /\ \A h \in rendered'.halo : h.radius = p.interactionRadius]_vars

\* C8: a change of particleCount, interactionRadius or interactionStrength
\* without start() or reinitialize() leaves the particle set alone, and every
\* tick of a running loop computes with the values its previous tick used
C8_NoLiveReload ==
    [][/\ props' # props =>
             particlesRef' = particlesRef /\ rafQueue' = rafQueue /\ tick' = tick
       /\ (TickStep /\ ~StartStep) =>
             /\ Len(particlesRef') = Len(particlesRef)
             /\ \E cb \in rafQueue \ rafQueue' :
                   /\ tick'.radius = cb.usedRadius
                   /\ tick'.strength = cb.usedStrength
                   /\ \A h \in rendered'.halo : h.radius = cb.usedRadius]_vars

\* C8 witness: a tick ran while the latest render's radius, strength and
\* particle count differed from the ones the loop runs with
C8_Witness ==
    /\ ticks >= 2
    /\ tick.props.interactionRadius # tick.radius
    /\ rendered.halo # {}
    /\ \E cb \in AnimateCallbacks : cb.usedRadius = tick.radius

Sign(n) == IF n > 0 THEN 1 ELSE IF n < 0 THEN -1 ELSE 0

\* a tick run from a frame callback: it updates the particles of particlesRef
\* with the pointer of handPositionRef
CallbackTick == TickStep /\ ~StartStep

\* C17: in a tick with the pointer at a distance d, 0 < d < interactionRadius,
\* from a particle and interactionStrength > 0, the velocity change of the hand
\* interaction has on each axis the sign of particle - pointer when the
\* pointer is open and the opposite sign when it is closed (a component below
\* the resolution of the model is 0), and is not 0 on the longer axis when
\* d is at most half the radius.
C17_ForceSign ==
    [][CallbackTick
          => \A i \in 1..Len(particlesRef) :
                LET p == particlesRef[i]
                    hand == handPositionRef
                    dx == p.x - hand.x
                    dy == p.y - hand.y
                    square == dx * dx + dy * dy
                    radius == tick'.radius * SCALE
                    dv == HandForce(p, hand, tick'.radius, tick'.strength)
                    away == IF hand.isOpen THEN 1 ELSE -1
                IN  (/\ ~hand.isNull /\ tick'.strength > 0
                     /\ 0 < square /\ square < radius * radius)
                    => /\ Sign(dv[1]) \in {0, away * Sign(dx)}
                       /\ Sign(dv[2]) \in {0, away * Sign(dy)}
                       /\ (4 * square <= radius * radius /\ Abs(dx) >= Abs(dy))
                             => Sign(dv[1]) = away * Sign(dx)
                       /\ (4 * square <= radius * radius /\ Abs(dy) >= Abs(dx))
                             => Sign(dv[2]) = away * Sign(dy)
                       /\ (Len(particlesRef) = 1 /\ particlesRef'[1].x = p.x + particlesRef'[1].vx)
                             => particlesRef'[1].vx =
                                   TruncDiv((p.vx + dv[1]) * DampingPercent, 100)]_vars

\* a closed pointer up and to the left of the particle pulled it up and left,
\* against gravity
C17_Witness ==
    /\ ticks >= 2
    /\ Len(particlesRef) = 1
    /\ tick.hand = Hand(220 * SCALE, 160 * SCALE, FALSE)
    /\ tick.radius = DefaultRadius
    /\ particlesRef[1].vx < 0 /\ particlesRef[1].vy < 0
    /\ particlesRef[1].x < 250 * SCALE /\ particlesRef[1].x > 220 * SCALE

\* a callback tick on the particle at (250, 200) with the closed pointer at
\* (200, 200), interactionRadius 150 and interactionStrength 0.5
ScenarioTick ==
    /\ CallbackTick
    /\ Len(particlesRef) = 1
    /\ particlesRef[1].x = 250 * SCALE /\ particlesRef[1].y = 200 * SCALE
    /\ handPositionRef = Hand(200 * SCALE, 200 * SCALE, FALSE)
    /\ tick'.radius = DefaultRadius /\ tick'.strength = DefaultStrength

\* the tick moved the particle's velocity by <<dvx, dvy>> before the damping
\* and the gravity
ScenarioDelta(dvx, dvy) ==
    /\ HandForce(particlesRef[1], handPositionRef, tick'.radius, tick'.strength)
          = <<dvx, dvy>>
    /\ particlesRef'[1].vx =
          TruncDiv((particlesRef[1].vx + dvx) * DampingPercent, 100)
    /\ particlesRef'[1].vy =
          TruncDiv((particlesRef[1].vy + dvy) * DampingPercent, 100) + Gravity

\* C18 as amended: with interactionRadius 150, interactionStrength 0.5, the
\* closed pointer at (200, 200) and a particle at (250, 200), the hand
\* interaction changes the x velocity by -0.333 (0.33 at the resolution of
\* the model), toward the pointer, and the y velocity by 0, before damping
\* and gravity.
C18_ScenarioDeltaTowardPointer ==
    [][ScenarioTick => ScenarioDelta(-TruncDiv(SCALE, 3), 0)]_vars

\* C18 as stated: in that scenario the x velocity changes by +0.333
C18_ScenarioDeltaAsStated ==
    [][ScenarioTick => ScenarioDelta(TruncDiv(SCALE, 3), 0)]_vars

\* the scenario's tick ran on a particle at rest: after damping and gravity
\* the particle moves left
C18_Witness ==
    /\ ticks >= 2
    /\ Len(particlesRef) = 1
    /\ tick.hand = Hand(200 * SCALE, 200 * SCALE, FALSE)
    /\ tick.radius = DefaultRadius /\ tick.strength = DefaultStrength
    /\ particlesRef[1].vx = TruncDiv(-TruncDiv(SCALE, 3) * DampingPercent, 100)
    /\ particlesRef[1].x = 250 * SCALE + particlesRef[1].vx
    /\ particlesRef[1].vy = Gravity
    /\ particlesRef[1].y = 200 * SCALE + Gravity

\* C19: in a tick, a particle at the position of the pointer, and a particle
\* at interactionRadius or more from the pointer, gets no velocity change from
\* the hand interaction, open or closed: it moves as it does without a
\* pointer.
C19_NoForceOutOfRange ==
    [][CallbackTick
          => \A i \in 1..Len(particlesRef) :
                LET p == particlesRef[i]
                    hand == handPositionRef
                    dx == p.x - hand.x
                    dy == p.y - hand.y
                    square == dx * dx + dy * dy
                    radius == tick'.radius * SCALE
                    free == StepParticle(particlesRef, i, Null, tick'.width,
                                         tick'.height, tick'.radius,
                                         tick'.strength, 0)
                IN  (~hand.isNull /\ (square = 0 \/ square >= radius * radius))
                    => /\ HandForce(p, hand, tick'.radius, tick'.strength) = <<0, 0>>
                       /\ Len(particlesRef) = 1
                             => /\ particlesRef'[i].vx = free.vx
                                /\ particlesRef'[i].vy = free.vy
                                /\ particlesRef'[i].x = free.x
                                /\ particlesRef'[i].y = free.y]_vars

\* a tick ran with the pointer on the particle at rest at (250, 200): the
\* particle only fell
C19_Witness ==
    /\ ticks >= 2
    /\ Len(particlesRef) = 1
    /\ ~tick.hand.isNull
    /\ tick.hand.x = 250 * SCALE /\ tick.hand.y = 200 * SCALE
    /\ particlesRef[1].vx = 0 /\ particlesRef[1].x = 250 * SCALE
    /\ particlesRef[1].vy = Gravity /\ particlesRef[1].y = 200 * SCALE + Gravity

\* the velocity of particle i of a callback tick after the forces, the
\* damping and the gravity and before the boundary collision: the particles
\* before i are already updated when i is
PreBounce(i) ==
    LET mixed == [j \in 1..Len(particlesRef) |->
                     IF j < i THEN particlesRef'[j] ELSE particlesRef[j]]
        p == particlesRef[i]
        hf == HandForce(p, handPositionRef, tick'.radius, tick'.strength)
        sf == SeparationForce(mixed, i, 1)
    IN  << TruncDiv((p.vx + hf[1] + sf[1]) * DampingPercent, 100),
           TruncDiv((p.vy + hf[2] + sf[2]) * DampingPercent, 100) + Gravity >>

\* C20: a tick reads the current canvas size; a particle whose new position is
\* beyond the right or bottom boundary of that size (as after a shrink without
\* reinitialize()) is put on the boundary with its velocity on that axis
\* multiplied by -0.5, and on an axis where the new position is inside the
\* canvas the velocity is kept.
C20_ShrinkClampsAndBounces ==
    [][CallbackTick
          => /\ tick'.width = canvas[1] /\ tick'.height = canvas[2]
             /\ \A i \in 1..Len(particlesRef) :
                   LET p == particlesRef[i]
                       q == particlesRef'[i]
                       v == PreBounce(i)
                       right == canvas[1] * SCALE
                       bottom == canvas[2] * SCALE
                   IN  /\ p.x + v[1] > right
                          => q.x = right /\ q.vx = -TruncDiv(v[1], 2) /\ q.vx * v[1] <= 0
                       /\ p.y + v[2] > bottom
                          => q.y = bottom /\ q.vy = -TruncDiv(v[2], 2) /\ q.vy * v[2] <= 0
                       /\ (0 <= p.x + v[1] /\ p.x + v[1] <= right)
                          => q.x = p.x + v[1] /\ q.vx = v[1]
                       /\ (0 <= p.y + v[2] /\ p.y + v[2] <= bottom)
                          => q.y = p.y + v[2] /\ q.vy = v[2]]_vars

\* the canvas shrank from 60 x 40 to 30 x 20 under a running loop: the
\* particle that initParticles put at (30, 39.6) of the larger canvas was put
\* on the new bottom boundary with its y velocity reversed, and keeps the x
\* velocity the closed pointer at the origin gave it
C20_Witness ==
    /\ ticks >= 2
    /\ canvas = <<30, 20>> /\ tick.width = 30 /\ tick.height = 20
    /\ \E i \in 1..Len(particlesRef) :
          /\ particlesRef[i].radius = SCALE
          /\ particlesRef[i].x > 15 * SCALE /\ particlesRef[i].x < 30 * SCALE
          /\ particlesRef[i].vx < 0
          /\ particlesRef[i].y = 20 * SCALE
          /\ particlesRef[i].vy # 0

\* C21: start() and reinitialize() leave particleCount particles, the
\* particleCount of the render they are called in; a tick run from a frame
\* callback keeps the number of particles, and no other call changes the
\* particles at all. reinitialize() twice in a row gives particleCount
\* particles both times.
C21_CountIsConfigured ==
    [][/\ StartStep => Len(particlesRef') = props.particleCount
       /\ (particlesRef' # particlesRef /\ ~TickStep)
             => /\ Len(particlesRef') = props.particleCount
                /\ props' = props
                /\ eventsLeft' # eventsLeft
       /\ CallbackTick => Len(particlesRef') = Len(particlesRef)]_vars

\* the loop was started with one particle, the caller changed particleCount
\* to 2 and called reinitialize(), and a tick ran on the two particles
C21_Witness ==
    /\ ticks >= 2
    /\ props.particleCount = 2
    /\ reinitProps = {props}
    /\ tick.props = props
    /\ Len(particlesRef) = 2

\* C22: a tick reads one pointer, the one in handPositionRef when the tick
\* begins: every particle is integrated with it, the halo of the frame is
\* drawn at it (no halo when there is none), and the tick leaves it in place.
C22_OnePointerPerTick ==
    [][TickStep
          => /\ handPositionRef' = handPositionRef
             /\ tick'.hand = handPositionRef
             /\ rendered'.halo =
                   IF handPositionRef.isNull THEN {}
                   ELSE {[x |-> handPositionRef.x, y |-> handPositionRef.y,
                          radius |-> tick'.radius,
                          isOpen |-> handPositionRef.isOpen]}
             /\ ~StartStep
                   => \E alphaDraws \in AlphaChoices(particlesRef) :
                         particlesRef' =
                            UpdateParticles(particlesRef, handPositionRef,
                                            tick'.width, tick'.height,
                                            tick'.radius, tick'.strength,
                                            alphaDraws)]_vars

\* a tick ran after the caller published the closed pointer at the origin:
\* the halo is at the origin and both particles were pulled left
C22_Witness ==
    /\ ticks >= 2
    /\ lastWrite.by = "caller"
    /\ tick.hand = Hand(0, 0, FALSE)
    /\ \E h \in rendered.halo : h.x = 0 /\ h.y = 0 /\ ~h.isOpen
    /\ Len(particlesRef) = 2
    /\ \A i \in 1..2 : particlesRef[i].vx < 0

\* the pairs i < j of particles closer than 50 px
ClosePairs(particles) ==
    { pr \in (1..Len(particles)) \X (1..Len(particles)) :
         /\ pr[1] < pr[2]
         /\ LET dx == particles[pr[1]].x - particles[pr[2]].x
                dy == particles[pr[1]].y - particles[pr[2]].y
            IN  dx * dx + dy * dy
                   < (ConnectionDistance * SCALE) * (ConnectionDistance * SCALE) }

\* C25: the frame of a tick has one segment for every pair of particles
\* closer than 50 px, from (x_i, y_i) to (x_j, y_j), and no other segment.
C25_SegmentsJoinParticles ==
    [][TickStep
          => rendered'.segments =
                { [i |-> pr[1], j |-> pr[2],
                   from |-> <<particlesRef'[pr[1]].x, particlesRef'[pr[1]].y>>,
                   to |-> <<particlesRef'[pr[2]].x, particlesRef'[pr[2]].y>>] :
                  pr \in ClosePairs(particlesRef') }]_vars

\* 0 <= life <= maxLife, 100 <= maxLife < 200, 0.5 <= alpha <= 1,
\* 1 <= radius <= 4, and the colour is one of the palette
WellFormed(particle) ==
    /\ 0 <= particle.life /\ particle.life <= particle.maxLife
    /\ 100 * SCALE <= particle.maxLife /\ particle.maxLife < 200 * SCALE
    /\ TruncDiv(SCALE, 2) <= particle.alpha /\ particle.alpha <= SCALE
    /\ SCALE <= particle.radius /\ particle.radius <= 4 * SCALE
    /\ particle.color \in 1..PaletteSize

\* C26: every particle is well formed in every state; reinitialize() leaves
\* life < maxLife; a tick run from a frame callback keeps radius, colour and
\* maxLife of every particle, adds 1 to life or resets it to 0 when it would
\* exceed maxLife, and changes alpha only with that reset.
C26_ParticlesWellFormed ==
    [][/\ \A i \in 1..Len(particlesRef') : WellFormed(particlesRef'[i])
       /\ (particlesRef' # particlesRef /\ ~TickStep)
             => \A i \in 1..Len(particlesRef') :
                   particlesRef'[i].life < particlesRef'[i].maxLife
       /\ CallbackTick
             => \A i \in 1..Len(particlesRef) :
                   LET p == particlesRef[i]
                       q == particlesRef'[i]
                   IN  /\ q.radius = p.radius
                       /\ q.color = p.color
                       /\ q.maxLife = p.maxLife
                       /\ q.life = IF p.life + SCALE > p.maxLife THEN 0
                                   ELSE p.life + SCALE
                       /\ q.life # 0 => q.alpha = p.alpha]_vars

\* a particle created with life 99 and maxLife 100 was reset to life 0 by
\* its second tick
C26_Witness ==
    /\ ticks >= 2
    /\ \E i \in 1..Len(particlesRef) :
          /\ particlesRef[i].life = 0
          /\ particlesRef[i].maxLife = 100 * SCALE
          /\ WellFormed(particlesRef[i])

\* pos brought into [0, limit]
Clamped(pos, limit) == IF pos < 0 THEN 0 ELSE IF pos > limit THEN limit ELSE pos

\* C27: in a tick each particle's velocity becomes 0.98 * (velocity + pointer
\* impulse + repulsion impulses) + (0, 0.02), the position is advanced by that
\* velocity and then brought into the canvas, a clamped axis keeping half the
\* velocity reversed, and life is incremented whatever the collision did.
C27_TickOrder ==
    [][CallbackTick
          => \A i \in 1..Len(particlesRef) :
                LET p == particlesRef[i]
                    q == particlesRef'[i]
                    v == PreBounce(i)
                    nx == p.x + v[1]
                    ny == p.y + v[2]
                IN  /\ q.x = Clamped(nx, canvas[1] * SCALE)
                    /\ q.y = Clamped(ny, canvas[2] * SCALE)
                    /\ q.vx = IF q.x = nx THEN v[1] ELSE -TruncDiv(v[1], 2)
                    /\ q.vy = IF q.y = ny THEN v[2] ELSE -TruncDiv(v[2], 2)
                    /\ q.life \in {0, p.life + SCALE}]_vars

\* a tick ran on two particles within repulsion range of each other with a
\* pointer in range, and left the first strictly inside the canvas, falling
C27_Witness ==
    /\ ticks >= 2
    /\ ~tick.hand.isNull
    /\ Len(particlesRef) = 2
    /\ LET dx == particlesRef[1].x - particlesRef[2].x
           dy == particlesRef[1].y - particlesRef[2].y
       IN  /\ dx * dx + dy * dy < (SeparationDistance * SCALE) * (SeparationDistance * SCALE)
           /\ dx * dx + dy * dy > 0
    /\ 0 < particlesRef[1].x /\ particlesRef[1].x < tick.width * SCALE
    /\ 0 < particlesRef[1].y /\ particlesRef[1].y < tick.height * SCALE
    /\ particlesRef[1].vx # 0 /\ particlesRef[1].vy # 0

\* C28: when the boundary collision of a tick puts a particle on an edge, the
\* velocity on that axis points into the canvas or is 0: vx >= 0 at x = 0,
\* vx <= 0 at x = width, vy >= 0 at y = 0, vy <= 0 at y = height.
C28_BounceTurnsInward ==
    [][CallbackTick
          => \A i \in 1..Len(particlesRef) :
                LET p == particlesRef[i]
                    q == particlesRef'[i]
                    v == PreBounce(i)
                IN  /\ p.x + v[1] < 0 => q.vx >= 0
                    /\ p.x + v[1] > canvas[1] * SCALE => q.vx <= 0
                    /\ p.y + v[2] < 0 => q.vy >= 0
                    /\ p.y + v[2] > canvas[2] * SCALE => q.vy <= 0]_vars

----------------------------------------------------------------------------
(* Properties of the estimator *)

NoInitInFlight == \A k \in Calls : ~InFlight(calls[k])

\* no camera track is live, no analysis frame callback is scheduled, not Active
TornDown ==
    /\ \A k \in Calls : streams[k] # "live"
    /\ ProcessCallbacks = {}
    /\ ~isActive

\* Idle: loop not running, no pending frame callback, every track stopped, no
\* stream reference, no video sink, no previous frame, not Active
EstimatorIdle ==
    /\ ~isRunningRef
    /\ TornDown
    /\ streamRef = 0
    /\ videoRef = 0
    /\ prevFrameRef = {}

\* C2: when stop() was called while the only initialize() made was in flight,
\* the step that finishes that initialize() leaves the estimator torn down: no
\* live camera track, no scheduled analysis frame callback, isActive false.
C2_StopDuringInitTearsDown ==
    [][\A k \in Calls :
          (/\ k \in stoppedDuring
           /\ InFlight(calls[k]) /\ ~InFlight(calls'[k])
           /\ \A j \in Calls \ {k} : calls[j] = "unused")
          => TornDown']_vars

\* C9: a stop() made while no initialize() is in flight leaves the estimator
\* Idle, and a stop() made in an Idle state changes nothing the estimator holds.
C9_StopLeavesIdle ==
    [][(StopTracking /\ NoInitInFlight)
          => /\ EstimatorIdle'
             /\ EstimatorIdle =>
                   UNCHANGED <<videoRef, streamRef, analysisCanvasRef, animationRef,
                               prevFrameRef, isRunningRef, isActive, streams, videos,
                               rafQueue>>]_vars

\* C10: the step in which an initialize() fails reports one error, leaves the
\* analysis loop not running with no frame callback pending, isActive and
\* isLoading false, and makes no camera request; camera requests are only made
\* by an invocation of initialize().
C10_FailureLeavesIdle ==
    [][/\ \A k \in Calls :
             (InFlight(calls[k]) /\ calls'[k] = "failed")
             => /\ errorReports' = errorReports + 1
                /\ error' # ""
                /\ ~isRunningRef'
                /\ ProcessCallbacks' = {}
                /\ ~isActive'
                /\ ~isLoading'
                /\ cameraRequests' = cameraRequests
       /\ cameraRequests' # cameraRequests
             => \E k \in Calls : calls[k] = "unused" /\ calls'[k] = "awaitCamera"]_vars

\* every err.message an initialize() may catch
FailureMessages ==
    CameraErrors \cup {"Camera timeout", "Video failed",
                       "The play() request was interrupted"}

\* the failure kind behind an err.message
FailureKind(message) ==
    IF message \in PermissionMessages THEN "permission"
    ELSE IF message \in NotFoundMessages THEN "notFound"
    ELSE IF message = "Camera timeout" THEN "timeout"
    ELSE "other"

\* C11: when an initialize() fails by permission denial, by a missing device or
\* by the stream-ready timeout, the error it reports differs from the error
\* reported for every message of the other two kinds.
C11_DistinctErrors ==
    [][\A k \in Calls :
          (/\ calls[k] # "failed" /\ calls'[k] = "failed"
           /\ FailureKind(thrown'[k]) # "other")
          => /\ error' = ErrorText(thrown'[k])
             /\ \A m \in FailureMessages :
                   FailureKind(m) \notin {"other", FailureKind(thrown'[k])}
                   => error' # ErrorText(m)]_vars

\* one invocation was refused, the next timed out, and the timeout is reported
C11_Witness ==
    \E j, k \in Calls :
       /\ calls[j] = "failed" /\ FailureKind(thrown[j]) = "permission"
       /\ calls[k] = "failed" /\ FailureKind(thrown[k]) = "timeout"
       /\ error = ErrorText(thrown[k])
       /\ error # ErrorText(thrown[j])

\* a step that runs a processFrame callback
FrameStep == frameTicks' = frameTicks + 1

\* C12: when drawing or reading the frame throws in an analysis tick of an
\* Active estimator, the tick passes nothing to onHandUpdate, leaves the
\* PointerState slot, the previous frame, the error and isActive as they were,
\* keeps the loop running and requests the next processFrame callback.
C12_FrameErrorSwallowed ==
    [][(FrameStep /\ outcome' = "threw" /\ isActive)
          => /\ emitted' = {}
             /\ handPositionRef' = handPositionRef
             /\ prevFrameRef' = prevFrameRef
             /\ isActive' /\ isRunningRef'
             /\ error' = error
             /\ \E cb \in ProcessCallbacks' :
                   /\ cb \notin rafQueue
                   /\ animationRef' = cb.id
             /\ Cardinality(ProcessCallbacks') = Cardinality(ProcessCallbacks)]_vars

\* a frame error in the middle of the stream, with the next tick pending
C12_Witness ==
    /\ outcome = "threw"
    /\ frameTicks >= 2
    /\ prevFrameRef # {}
    /\ isActive
    /\ \E cb \in ProcessCallbacks : animationRef = cb.id

\* a tick that read a frame and had a previous frame to compare it with
ComparedStep ==
    /\ FrameStep
    /\ isRunningRef
    /\ prevFrameRef # {}
    /\ outcome' \notin {"notReady", "threw"}

\* the count of motion pixels of the tick: current frame against previous frame
MotionOfStep ==
    LET currentFrame == CHOOSE frame \in prevFrameRef' : TRUE
        prevFrame == CHOOSE frame \in prevFrameRef : TRUE
    IN  MotionSums[currentFrame, prevFrame]

\* C13: a tick with a previous frame passes exactly one value to onHandUpdate:
\* a pointer exactly when the motion-pixel count exceeds 30, null otherwise, with
\* isOpen true exactly when the count exceeds 150; equal frames give null.
C13_EmitByCount ==
    [][ComparedStep
          => /\ Cardinality(emitted') = 1
             /\ \A hand \in emitted' :
                   /\ ~hand.isNull <=> MotionOfStep.motionCount > 30
                   /\ hand.isOpen <=> MotionOfStep.motionCount > 150
                   /\ prevFrameRef' = prevFrameRef => hand.isNull
                   /\ handPositionRef'.isNull = hand.isNull
                   /\ handPositionRef'.isOpen = hand.isOpen]_vars

\* ticks at the thresholds: 31 motion pixels give a closed pointer
C13_Witness ==
    /\ outcome = "compared"
    /\ prevFrameRef = {Frame(<<0, 0, 124, 4>>, White)}
    /\ \E hand \in emitted : ~hand.isNull /\ ~hand.isOpen
    /\ ~handPositionRef.isNull

\* the sum of the absolute red, green and blue differences of a pixel
ChannelSum(currentFrame, prevFrame, x, y) ==
    LET c == PixelAt(currentFrame, x, y)
        q == PixelAt(prevFrame, x, y)
    IN  Abs(c[1] - q[1]) + Abs(c[2] - q[2]) + Abs(c[3] - q[3])

\* sampled pixels inside and outside the blocks of the frames
ProbePoints == { <<0, 0>>, <<40, 40>>, <<100, 40>>, <<156, 116>> }

\* C14: in a tick that compares two frames, a sampled pixel is a motion pixel
\* exactly when the sum of its absolute red, green and blue differences
\* exceeds 25.
C14_SumThreshold ==
    [][ComparedStep
          => \A currentFrame \in prevFrameRef', prevFrame \in prevFrameRef,
                pt \in ProbePoints :
                IsMotion(currentFrame, prevFrame, pt[1], pt[2])
                <=> ChannelSum(currentFrame, prevFrame, pt[1], pt[2]) > 25]_vars

Min(a, b) == IF a <= b THEN a ELSE b

Max(a, b) == IF a >= b THEN a ELSE b

NoBox == [count |-> 0, minX |-> 0, maxX |-> 0, minY |-> 0, maxY |-> 0]

\* the bounding box of two sets of pixels
JoinBox(a, b) ==
    IF a.count = 0 THEN b
    ELSE IF b.count = 0 THEN a
    ELSE [count |-> a.count + b.count,
          minX |-> Min(a.minX, b.minX), maxX |-> Max(a.maxX, b.maxX),
          minY |-> Min(a.minY, b.minY), maxY |-> Max(a.maxY, b.maxY)]

SamplesPerRow == (AnalysisWidth - 1) \div SampleStep + 1

SampleRows == (AnalysisHeight - 1) \div SampleStep + 1

\* the number and the bounding box of the motion pixels among the sampled
\* pixels number lo..hi, counted row by row
RECURSIVE MotionBoxOver(_, _, _, _)
MotionBoxOver(currentFrame, prevFrame, lo, hi) ==
    IF lo = hi
    THEN LET x == (lo % SamplesPerRow) * SampleStep
             y == (lo \div SamplesPerRow) * SampleStep
         IN  IF IsMotion(currentFrame, prevFrame, x, y)
             THEN [count |-> 1, minX |-> x, maxX |-> x, minY |-> y, maxY |-> y]
             ELSE NoBox
    ELSE LET mid == (lo + hi) \div 2
         IN  JoinBox(MotionBoxOver(currentFrame, prevFrame, lo, mid),
                     MotionBoxOver(currentFrame, prevFrame, mid + 1, hi))

\* the number and the bounding box of the motion pixels of a pair of frames
MotionBox(currentFrame, prevFrame) ==
    MotionBoxOver(currentFrame, prevFrame, 0, SamplesPerRow * SampleRows - 1)

\* the frames whose motion pixels are enumerated: none, a block in a corner,
\* a row, a block and the block shifted by 8 pixels
BoxFrames ==
    { Frame(<<0, 0, 0, 0>>, White),
      Frame(<<0, 0, 64, 40>>, White),
      Frame(<<0, 0, 124, 4>>, White),
      Frame(<<40, 40, 80, 80>>, White),
      Frame(<<48, 40, 88, 80>>, White) }

MotionBoxes ==
    [currentFrame \in BoxFrames, prevFrame \in BoxFrames |->
        MotionBox(currentFrame, prevFrame)]

\* C15: when a tick emits a pointer, the pointer is the centroid of the motion
\* pixels scaled by the video size, and that centroid lies, with x mirrored
\* (width - x), inside the bounding box of the motion pixels (enumerated for
\* the pairs of BoxFrames).
C15_CentroidInMovedRegion ==
    [][ComparedStep
          => \A hand \in emitted' :
                ~hand.isNull
                => LET currentFrame == CHOOSE frame \in prevFrameRef' : TRUE
                       prevFrame == CHOOSE frame \in prevFrameRef : TRUE
                       centre == Centroid(MotionOfStep)
                   IN  /\ (currentFrame \in BoxFrames /\ prevFrame \in BoxFrames)
                          => LET box == MotionBoxes[currentFrame, prevFrame]
                             IN  /\ box.count = MotionOfStep.motionCount
                                 /\ (AnalysisWidth - box.maxX) * SCALE <= centre.x
                                 /\ centre.x <= (AnalysisWidth - box.minX) * SCALE
                                 /\ box.minY * SCALE <= centre.y
                                 /\ centre.y <= box.maxY * SCALE
                       /\ hand.x = TruncDiv(centre.x * videos[videoRef].size[1],
                                            AnalysisWidth)
                       /\ hand.y = TruncDiv(centre.y * videos[videoRef].size[2],
                                            AnalysisHeight)]_vars

\* a block shifted by 8 pixels: the pointer is between the mirrored edges of
\* the moved region, 76 and 120 on the analysis surface
C15_Witness ==
    /\ outcome = "compared"
    /\ prevFrameRef = {Frame(<<48, 40, 88, 80>>, White)}
    /\ frameTicks = 2
    /\ videos[1].size = <<320, 240>>
    /\ \E hand \in emitted :
          /\ ~hand.isNull
          /\ MotionBoxes[Frame(<<48, 40, 88, 80>>, White),
                         Frame(<<40, 40, 80, 80>>, White)].count = 40
          /\ 76 * 2 * SCALE <= hand.x /\ hand.x <= 120 * 2 * SCALE
          /\ 40 * 2 * SCALE <= hand.y /\ hand.y <= 80 * 2 * SCALE
          /\ hand.x = 196 * SCALE

\* C16: a pointer that the estimator published into the PointerState slot lies
\* on the canvas: 0 <= x <= canvas width and 0 <= y <= canvas height, whatever
\* resolution the camera delivered.
C16_PublishedInCanvas ==
    (lastWrite.by = "estimator" /\ ~handPositionRef.isNull)
    => /\ 0 <= handPositionRef.x /\ handPositionRef.x <= canvas[1] * SCALE
       /\ 0 <= handPositionRef.y /\ handPositionRef.y <= canvas[2] * SCALE

\* the step completes initialize() call k: its camera stream was acquired and
\* its video became ready and plays
Completes(k) ==
    /\ calls[k] = "awaitPlay" /\ calls'[k] = "done"
    /\ streams[k] # "none"
    /\ videos'[k].playing

\* C23: the analysis loop is started (isRunningRef set, a first processFrame
\* callback requested) only by the step that completes an initialize(), after
\* the camera stream was acquired and the video became ready; a processFrame
\* callback reads a frame or emits a pointer update only when some initialize()
\* has completed and the video it reads has a live stream.
C23_NoAnalysisBeforeReady ==
    [][/\ ((~isRunningRef /\ isRunningRef')
             \/ (ProcessCallbacks = {} /\ ProcessCallbacks' # {}))
          => \E k \in Calls : Completes(k)
       /\ (FrameStep /\ (outcome' \in {"first", "compared", "threw"} \/ emitted' # {}))
          => /\ \E k \in Calls : calls[k] = "done"
             /\ videoRef # 0 /\ VideoHasData(videoRef)
       /\ \A k \in Calls :
             calls'[k] \in {"awaitPlay", "done"} => streams'[k] # "none"]_vars

\* the first initialize() completed and an analysis tick compared two frames
\* and emitted a pointer
C23_Witness ==
    /\ calls[1] = "done"
    /\ streams[1] = "live"
    /\ videos[1].playing
    /\ isRunningRef
    /\ outcome = "compared"
    /\ \E hand \in emitted : ~hand.isNull

Finished(k) == calls[k] \in {"done", "failed"}

C29_FailureReleasesCamera ==
    [][\A k \in Calls :
          (InFlight(calls[k]) /\ calls'[k] = "failed")
          => /\ streams'[k] # "live"
             /\ streamRef' # k]_vars

LiveStreams == {k \in Calls : streams[k] = "live"}

\* C30: at most one camera stream is live and at most one processFrame
\* callback is pending, in every state.
C30_OneStreamOneChain ==
    /\ Cardinality(LiveStreams) <= 1
    /\ Cardinality(ProcessCallbacks) <= 1

----------------------------------------------------------------------------
(* Properties of the component *)

\* C5: no tick reads a non-null PointerState that was written before the last
\* switch of the pointer source.
C5_NoStaleRead ==
    [][TickStep => (tick'.hand.isNull \/ ~lastWrite.switched)]_vars

\* C6: the last write of the PointerState slot was made by a mouse or touch
\* handler only while camera control was off, and by the estimator only while
\* camera control was on.
C6_SingleWriter ==
    /\ lastWrite.by \in {"mouse", "touch"} => ~lastWrite.camera
    /\ lastWrite.by = "estimator" => lastWrite.camera


====
